---- MODULE Spec2Model ----
(***************************************************************************)
(* Model of wasserwaage/sigridAdxl345.py: the ADXL345 accelerometer driver *)
(* class SigridADXL345, its register map, and the helper fromtwos.         *)
(*                                                                         *)
(* Three specifications are given:                                         *)
(*   Spec        the program as it runs: the arguments are read and the    *)
(*               constructor __init__ is executed;                         *)
(*   SpecConfig  the configuration methods setRate, setRange and           *)
(*               startMeasurement, each applied to an instance whose       *)
(*               attributes hold the values __init__ assigns;              *)
(*   SpecRead    the method getData applied to such an instance.           *)
(*                                                                         *)
(* The constructor as written never returns an instance (see               *)
(* ConstructionAlwaysExits below), so the methods are exercised on an      *)
(* instance given by its attributes rather than on one obtained from Spec. *)
(*                                                                         *)
(* Python values are tagged records (PyInt, PyStr, PyNone, Unset), so that *)
(* None, integers and strings stay distinct as they are in Python.  The    *)
(* print calls change no program state and are not modelled.               *)
(***************************************************************************)
EXTENDS Integers, Sequences, FiniteSets, TLC

VARIABLES
    pc,         \* "new": arguments read, no instance yet; "exited": exit() was
                \* called; "measuring": the constructor returned an instance;
                \* "ready": an instance is at hand for method calls
    self,       \* the instance's attributes
    args,       \* the constructor's arguments (rate, measure_range, unit, address)
    busLog,     \* every transaction attempted on the SMBus, in order
    lastBlock,  \* what the last block read delivered (dataBytes)
    lastResult  \* how the last method call ended, and what it returned

vars == <<pc, self, args, busLog, lastBlock, lastResult>>

----------------------------------------------------------------------------
(* Bounds of the model *)

MaxCalls == 2   \* configuration method calls per behaviour of SpecConfig
MaxReads == 2   \* getData calls per behaviour of SpecRead

----------------------------------------------------------------------------
(* Register map *)

ADDRESS         == 83    \* 0x53
BW_RATE         == 44    \* 0x2C
POWER_CTL       == 45    \* 0x2D
DATA_FORMAT     == 49    \* 0x31

BW_RATE_1600HZ  == 15
BW_RATE_800HZ   == 14
BW_RATE_400HZ   == 13
BW_RATE_200HZ   == 12
BW_RATE_100HZ   == 11
BW_RATE_50HZ    == 10
BW_RATE_25HZ    == 9

RANGE_2G        == 0
RANGE_4G        == 1
RANGE_8G        == 2
RANGE_16G       == 3
FULL_RES        == 8

MEASURE         == 8
AXES_DATA       == 50    \* 0x32

\* SCALE_FACTOR = 0.0039, kept as the numerator over 10^4
SCALE_FACTOR_E4 == 39

----------------------------------------------------------------------------
(* Python values *)

PyInt(n) == [t |-> "int",   n |-> n, s |-> ""]
PyStr(s) == [t |-> "str",   n |-> 0, s |-> s]
PyNone   == [t |-> "None",  n |-> 0, s |-> ""]
Unset    == [t |-> "unset", n |-> 0, s |-> ""]

\* key in d, for a dict d with integer keys
KeyIn(d, k) == k.t = "int" /\ k.n \in DOMAIN d

\* d.get(k, default)
DictGet(d, k, default) == IF KeyIn(d, k) THEN d[k.n] ELSE default

\* a << n, a | b and a & b on non-negative integers
Shl(a, n) == a * (2 ^ n)

RECURSIVE BitOr(_, _)
BitOr(a, b) ==
    IF a = 0 THEN b
    ELSE IF b = 0 THEN a
    ELSE (IF a % 2 = 1 \/ b % 2 = 1 THEN 1 ELSE 0) + 2 * BitOr(a \div 2, b \div 2)

RECURSIVE BitAnd(_, _)
BitAnd(a, b) ==
    IF a = 0 \/ b = 0 THEN 0
    ELSE (IF a % 2 = 1 /\ b % 2 = 1 THEN 1 ELSE 0) + 2 * BitAnd(a \div 2, b \div 2)

----------------------------------------------------------------------------
(* The state a method works on: the instance, the bus log, the exception   *)
(* being raised ("" when none) and the returned value.                     *)

Frame(obj, log) == [self |-> obj, log |-> log, exc |-> "", ret |-> <<>>]

Raise(st, e) == [st EXCEPT !.exc = e]

\* The instance right after allocation: address, rate, range and unit are the
\* class attributes (None); measure_range and rangeBits do not exist yet.
ClassAttributes ==
    [address |-> PyNone, rate |-> PyNone, range |-> PyNone, unit |-> PyNone,
     measure_range |-> Unset, rangeBits |-> Unset]

----------------------------------------------------------------------------
(* The SMBus collaborator.  `bus` is the bus's behaviour in this call: bus[i] *)
(* tells whether the i-th transaction of the log succeeds (an I/O error is   *)
(* raised otherwise); `resp` is what a block read delivers.                  *)

\* bus.write_byte_data(addr, reg, val)
write_byte_data(st, addr, reg, val, bus) ==
    LET ok  == bus[Len(st.log) + 1]
        ent == [op |-> "write", addr |-> addr, reg |-> reg, val |-> val, ok |-> ok]
        s1  == [st EXCEPT !.log = Append(@, ent)]
    IN  IF ok THEN s1 ELSE Raise(s1, "IOError")

\* bus.read_i2c_block_data(addr, reg, n)
read_i2c_block_data(st, addr, reg, n, resp) ==
    LET ent == [op |-> "read", addr |-> addr, reg |-> reg, val |-> n, ok |-> resp.ok]
        s1  == [st EXCEPT !.log = Append(@, ent)]
    IN  IF resp.ok THEN [s1 EXCEPT !.ret = resp.data] ELSE Raise(s1, "IOError")

----------------------------------------------------------------------------
(* Configuration methods.  `argv` holds the positional arguments passed in   *)
(* addition to self; each of these methods declares none.                    *)

\* mutant: the 800 Hz entry carries the 400 Hz pattern
adxl345Rates_typo ==
    (1600 :> BW_RATE_1600HZ) @@ (800 :> BW_RATE_400HZ) @@ (400 :> BW_RATE_400HZ) @@
    (200 :> BW_RATE_200HZ) @@ (100 :> BW_RATE_100HZ) @@ (50 :> BW_RATE_50HZ) @@
    (25 :> BW_RATE_25HZ)

adxl345Rates ==
    (1600 :> BW_RATE_1600HZ) @@ (800 :> BW_RATE_800HZ) @@ (400 :> BW_RATE_400HZ) @@
    (200 :> BW_RATE_200HZ) @@ (100 :> BW_RATE_100HZ) @@ (50 :> BW_RATE_50HZ) @@
    (25 :> BW_RATE_25HZ)

adxl345Ranges ==
    (16 :> RANGE_16G) @@ (8 :> RANGE_8G) @@ (4 :> RANGE_4G) @@ (2 :> RANGE_2G)

setRate(st, argv, bus) ==
    IF Len(argv) # 0 THEN Raise(st, "TypeError")
    ELSE LET defaultRate == BW_RATE_100HZ
             rateBits    == DictGet(adxl345Rates, st.self.rate, defaultRate)
         IN  write_byte_data(st, st.self.address, BW_RATE, rateBits, bus)

setRange(st, argv, bus) ==
    IF Len(argv) # 0 THEN Raise(st, "TypeError")
    ELSE IF st.self.measure_range = Unset THEN Raise(st, "AttributeError")
    ELSE LET defaultRange     == RANGE_2G
             rangeBits        == DictGet(adxl345Ranges, st.self.range, defaultRange)
             s1               == [st EXCEPT !.self.rangeBits = PyInt(rangeBits)]
             rangeBitsFullRes == BitOr(rangeBits, FULL_RES)
         IN  write_byte_data(s1, st.self.address, DATA_FORMAT, rangeBitsFullRes, bus)

startMeasurement(st, argv, bus) ==
    IF Len(argv) # 0 THEN Raise(st, "TypeError")
    ELSE write_byte_data(st, st.self.address, POWER_CTL, MEASURE, bus)

\* The constructor: the try block runs until a statement raises; the bare
\* except then calls exit(), which raises SystemExit.
__init__(st, rate, measure_range, unit, address, bus) ==
    LET s1 == [st EXCEPT !.self.address = address]
        s2 == [s1 EXCEPT !.self.rate = rate]
        s3 == setRate(s2, <<rate>>, bus)
        s4 == [s3 EXCEPT !.self.measure_range = measure_range]
        s5 == setRange(s4, <<measure_range>>, bus)
        s6 == [s5 EXCEPT !.self.unit = unit]
        s7 == startMeasurement(s6, <<>>, bus)
        tried == IF s3.exc # "" THEN s3
                 ELSE IF s5.exc # "" THEN s5
                 ELSE s7
    IN  IF tried.exc # "" THEN [tried EXCEPT !.exc = "SystemExit"] ELSE tried

----------------------------------------------------------------------------
(* Sample decoding *)

\* mutant: the sign test reads (1 << wordsize) - 1
fromtwos_mask(value, wordsize) ==
    IF BitAnd(value, Shl(1, wordsize) - 1) # 0
    THEN value - Shl(1, wordsize)
    ELSE value

fromtwos(value, wordsize) ==
    IF BitAnd(value, Shl(1, wordsize - 1)) # 0
    THEN value - Shl(1, wordsize)
    ELSE value

\* mutant: a missing byte reads as 0
Item_padded(dataBytes, i) ==
    IF i < Len(dataBytes) THEN [ok |-> TRUE, v |-> dataBytes[i + 1]]
                          ELSE [ok |-> TRUE, v |-> 0]

\* dataBytes[i]: a list subscript raises IndexError past the end of the list
Item(dataBytes, i) ==
    IF i < Len(dataBytes) THEN [ok |-> TRUE,  v |-> dataBytes[i + 1]]
                          ELSE [ok |-> FALSE, v |-> 0]

\* dataBytes[lo] | (dataBytes[hi] << 8)
Word(lo, hi) == BitOr(lo, Shl(hi, 8))

\* A float result is kept exactly, as mant * 10^-4 * 9.80665^gexp.
\* x *= SCALE_FACTOR
Scale(v) == [mant |-> v * SCALE_FACTOR_E4, gexp |-> 0]

\* x *= G_TO_MS2_FACTOR
ToMs2(a) == [a EXCEPT !.gexp = @ + 1]

adxl345Units == {PyStr("g"), PyStr("m2s")}

\* mutant: the fallback unit is 'm2s'
ValidateUnit_ms2(unit) == IF unit \notin adxl345Units THEN PyStr("m2s") ELSE unit

\* mutant: the unit is reset to 'g' whatever it was
ValidateUnit_always(unit) == PyStr("g")

\* if self.unit not in adxl345Units: self.unit = 'g'
ValidateUnit(unit) == IF unit \notin adxl345Units THEN PyStr("g") ELSE unit

getData(st, argv, resp) ==
    IF Len(argv) # 0 THEN Raise(st, "TypeError")
    ELSE
    LET s1 == read_i2c_block_data(st, st.self.address, AXES_DATA, 6, resp)
        dataBytes == s1.ret
        b(i) == Item(dataBytes, i)
        x  == fromtwos(Word(b(0).v, b(1).v), 16)
        y  == fromtwos(Word(b(2).v, b(3).v), 16)
        z  == fromtwos(Word(b(4).v, b(5).v), 16)
        xg == Scale(x)
        yg == Scale(y)
        zg == Scale(z)
        s2 == [s1 EXCEPT !.self.unit = ValidateUnit(@)]
        ms2 == s2.self.unit = PyStr("m2s")
        value == IF ms2 THEN <<ToMs2(xg), ToMs2(yg), ToMs2(zg)>> ELSE <<xg, yg, zg>>
    IN  IF s1.exc # "" THEN [s1 EXCEPT !.ret = <<>>]
        ELSE IF \E i \in 0..5 : ~b(i).ok THEN [Raise(s1, "IndexError") EXCEPT !.ret = <<>>]
        ELSE [s2 EXCEPT !.ret = [raw |-> <<x, y, z>>, value |-> value]]

----------------------------------------------------------------------------
(* Inputs *)

Rates     == {1600, 800, 400, 200, 100, 50, 25, 0, 3200}
Ranges    == {2, 4, 8, 16, 0, 3}
Units     == {"g", "m2s", "G"}
Addresses == {ADDRESS, 29}

Arguments ==
    [rate : {PyInt(r) : r \in Rates}, measure_range : {PyInt(r) : r \in Ranges},
     unit : {PyStr(u) : u \in Units}, address : {PyInt(a) : a \in Addresses}]

\* low and high byte of the words a block is made of
WordBytes == {<<0, 0>>, <<0, 1>>, <<255, 127>>, <<0, 128>>, <<255, 255>>}

Blocks == {wx \o wy \o wz : wx \in WordBytes, wy \in WordBytes, wz \in WordBytes}

\* a block cut short by the transport
ShortBlocks == {SubSeq(<<1, 2, 3, 4, 5, 6>>, 1, n) : n \in 0..5}

BusResponses ==
    {[ok |-> TRUE, data |-> d] : d \in Blocks \cup ShortBlocks}
        \cup {[ok |-> FALSE, data |-> <<>>]}

\* the instances the sample read is applied to: every unit, with a supported
\* and an unsupported configuration
ReadArguments ==
    {a \in Arguments : \/ a.rate.n = 1600 /\ a.measure_range.n = 16 /\ a.address.n = ADDRESS
                       \/ a.rate.n = 0 /\ a.measure_range.n = 3 /\ a.address.n = 29}

NoResult == [kind |-> "none", exc |-> "", ret |-> <<>>]

\* how a call that left the frame st ended
Outcome(st) ==
    IF st.exc # "" THEN [kind |-> "raise", exc |-> st.exc, ret |-> <<>>]
    ELSE [kind |-> "return", exc |-> "", ret |-> st.ret]

----------------------------------------------------------------------------
(* Spec: the program.  The arguments are read, then SigridADXL345(...) runs. *)

Init ==
    /\ pc = "new"
    /\ args \in Arguments
    /\ self = ClassAttributes
    /\ busLog = <<>>
    /\ lastBlock = <<>>
    /\ lastResult = NoResult

Construct ==
    /\ pc = "new"
    /\ \E bus \in [1..3 -> BOOLEAN] :
         LET st == __init__(Frame(self, busLog), args.rate, args.measure_range,
                            args.unit, args.address, bus)
         IN  /\ self' = st.self
             /\ busLog' = st.log
             /\ lastResult' = Outcome(st)
             /\ pc' = IF st.exc = "" THEN "measuring" ELSE "exited"
    /\ UNCHANGED <<args, lastBlock>>

Next == Construct

Spec == Init /\ [][Next]_vars

----------------------------------------------------------------------------
(* An instance whose attributes hold what __init__ assigns them: address,    *)
(* rate, measure_range and unit from the arguments; range stays the class    *)
(* attribute, for no statement assigns it.                                   *)

Instance(a) ==
    [ClassAttributes EXCEPT !.address = a.address, !.rate = a.rate,
                            !.measure_range = a.measure_range, !.unit = a.unit]

InitInstance(argset) ==
    /\ pc = "ready"
    /\ args \in argset
    /\ self = Instance(args)
    /\ busLog = <<>>
    /\ lastBlock = <<>>
    /\ lastResult = NoResult

InitConfig == InitInstance(Arguments)

InitRead == InitInstance(ReadArguments)

\* the bus's behaviour for the one transaction of a method call
OneShot == [{Len(busLog) + 1} -> BOOLEAN]

Returned(st) ==
    /\ self' = st.self
    /\ busLog' = st.log
    /\ lastResult' = Outcome(st)
    /\ UNCHANGED <<pc, args>>

(* SpecConfig: the configuration methods *)

SetRate ==
    /\ pc = "ready" /\ Len(busLog) < MaxCalls
    /\ \E bus \in OneShot : Returned(setRate(Frame(self, busLog), <<>>, bus))
    /\ UNCHANGED lastBlock

SetRange ==
    /\ pc = "ready" /\ Len(busLog) < MaxCalls
    /\ \E bus \in OneShot : Returned(setRange(Frame(self, busLog), <<>>, bus))
    /\ UNCHANGED lastBlock

StartMeasurement ==
    /\ pc = "ready" /\ Len(busLog) < MaxCalls
    /\ \E bus \in OneShot : Returned(startMeasurement(Frame(self, busLog), <<>>, bus))
    /\ UNCHANGED lastBlock

NextConfig == SetRate \/ SetRange \/ StartMeasurement

SpecConfig == InitConfig /\ [][NextConfig]_vars

(* SpecRead: the sample read *)

GetData ==
    /\ pc = "ready" /\ Len(busLog) < MaxReads
    /\ \E resp \in BusResponses :
         /\ Returned(getData(Frame(self, busLog), <<>>, resp))
         /\ lastBlock' = resp.data

NextRead == GetData

SpecRead == InitRead /\ [][NextRead]_vars

----------------------------------------------------------------------------
(* Properties of the constructor, checked under Spec *)

AllTransfersOk == \A i \in DOMAIN busLog : busLog[i].ok

IsWrite(i, reg) == busLog[i].op = "write" /\ busLog[i].reg = reg

\* C1: once construction has run over a bus whose writes succeed, the bus has
\* seen exactly three single-byte writes, in this order: the rate pattern to
\* the bandwidth register, the range|full-resolution byte to the data-format
\* register, the measurement-enable bit to the power-control register.
C1_WritesInOrder ==
    (pc # "new" /\ AllTransfersOk) =>
        /\ Len(busLog) = 3
        /\ IsWrite(1, BW_RATE)
        /\ IsWrite(2, DATA_FORMAT)
        /\ IsWrite(3, POWER_CTL) /\ busLog[3].val = 8

\* C2: for every rate, range and unit, construction over a bus whose writes
\* succeed does not abort: it yields a driver in the Measuring state.
C2_NeverAborts ==
    (pc # "new" /\ AllTransfersOk) => (pc = "measuring" /\ lastResult.exc = "")

\* What the constructor does instead, for every argument: self.setRate(rate)
\* passes an argument setRate does not take, the TypeError reaches the bare
\* except, and exit() ends the run before any register is written.  The
\* states C3 (a failing rate write during construction) and C4 (a driver in
\* Measuring) speak of are therefore never reached.
ConstructionAlwaysExits ==
    pc # "new" =>
        /\ pc = "exited"
        /\ busLog = <<>>
        /\ lastResult = [kind |-> "raise", exc |-> "SystemExit", ret |-> <<>>]

----------------------------------------------------------------------------
(* Properties of the configuration methods, checked under SpecConfig *)

DocumentedRate(hz) ==
    CASE hz = 1600 -> 15 [] hz = 800 -> 14 [] hz = 400 -> 13 [] hz = 200 -> 12
      [] hz = 100  -> 11 [] hz = 50  -> 10 [] hz = 25  -> 9  [] OTHER    -> 11

DocumentedRange(g) ==
    CASE g = 2 -> 0 [] g = 4 -> 1 [] g = 8 -> 2 [] g = 16 -> 3 [] OTHER -> 0

\* C5: every byte written to the bandwidth register is the documented pattern
\* of the requested rate (0x0F .. 0x09 for 1600 .. 25 Hz), and the 100 Hz
\* pattern 0x0B for any other rate.
C5_RateByte ==
    \A i \in DOMAIN busLog :
        busLog[i].reg = BW_RATE =>
            busLog[i].op = "write" /\ busLog[i].val = DocumentedRate(args.rate.n)

C5_Witness ==
    /\ args.rate = PyInt(25)
    /\ \E i \in DOMAIN busLog : IsWrite(i, BW_RATE) /\ busLog[i].ok /\ busLog[i].val = 9

\* C6: every byte written to the data-format register is the documented
\* pattern of the requested range (0x00 .. 0x03 for 2 .. 16 g, 0x00 for any
\* other range) with the full-resolution bit 0x08 added.
C6_RangeByte ==
    \A i \in DOMAIN busLog :
        busLog[i].reg = DATA_FORMAT =>
            busLog[i].op = "write"
                /\ busLog[i].val = DocumentedRange(args.measure_range.n) + 8

----------------------------------------------------------------------------
(* Properties of the sample read, checked under SpecRead *)

SampleReturned == lastResult.kind = "return"

\* the 16-bit two's-complement value of the word with these two bytes
Decode16(lo, hi) ==
    LET w == lo + 256 * hi IN IF w >= 32768 THEN w - 65536 ELSE w

DecodedFrom(block) ==
    <<Decode16(block[1], block[2]), Decode16(block[3], block[4]),
      Decode16(block[5], block[6])>>

\* C7: the raw value of each axis is the 16-bit two's-complement reading of
\* low | (high << 8), X from bytes 0 and 1, Y from 2 and 3, Z from 4 and 5;
\* it lies in -32768..32767, and 0x7FFF, 0x8000, 0xFFFF and 0x0000 decode to
\* 32767, -32768, -1 and 0.
C7_Decode ==
    SampleReturned =>
        LET raw == lastResult.ret.raw
        IN  /\ raw = DecodedFrom(lastBlock)
            /\ \A k \in 1..3 :
                 /\ raw[k] \in -32768..32767
                 /\ (lastBlock[2 * k - 1] = 255 /\ lastBlock[2 * k] = 127) => raw[k] = 32767
                 /\ (lastBlock[2 * k - 1] = 0   /\ lastBlock[2 * k] = 128) => raw[k] = -32768
                 /\ (lastBlock[2 * k - 1] = 255 /\ lastBlock[2 * k] = 255) => raw[k] = -1
                 /\ (lastBlock[2 * k - 1] = 0   /\ lastBlock[2 * k] = 0)   => raw[k] = 0

C7_Witness ==
    /\ SampleReturned
    /\ lastBlock = <<0, 128, 255, 127, 255, 255>>
    /\ lastResult.ret.raw = <<-32768, 32767, -1>>

\* C8: a block read that fails, or that delivers fewer than 6 bytes, ends the
\* sample read with an exception and no sample; a sample that is returned has
\* all three axes, decoded from one complete 6-byte block.
C8_NoPartialSample ==
    /\ SampleReturned =>
          /\ busLog[Len(busLog)].ok
          /\ Len(lastBlock) = 6
          /\ Len(lastResult.ret.raw) = 3 /\ Len(lastResult.ret.value) = 3
          /\ \A k \in 1..3 :
               lastResult.ret.value[k].mant
                   = 39 * Decode16(lastBlock[2 * k - 1], lastBlock[2 * k])
    /\ (busLog # <<>> /\ (~busLog[Len(busLog)].ok \/ Len(lastBlock) < 6)) =>
          /\ lastResult.kind = "raise"
          /\ lastResult.exc \in {"IOError", "IndexError"}
          /\ lastResult.ret = <<>>

C8_Witness ==
    /\ busLog # <<>> /\ busLog[Len(busLog)].ok
    /\ Len(lastBlock) = 4
    /\ lastResult = [kind |-> "raise", exc |-> "IndexError", ret |-> <<>>]

\* the sample a driver constructed with unit 'g' returns for this block
SampleInG(block) ==
    getData(Frame(Instance([args EXCEPT !.unit = PyStr("g")]), <<>>), <<>>,
            [ok |-> TRUE, data |-> block]).ret.value

\* C9: on the first read and on every later one, a driver configured with an
\* unrecognized unit returns the very triple a driver configured with 'g'
\* returns for the same block; the gravity factor is applied only when the
\* unit is 'm2s'.
C9_UnknownUnitAsG ==
    SampleReturned =>
        /\ args.unit \notin {PyStr("g"), PyStr("m2s")} =>
              lastResult.ret.value = SampleInG(lastBlock)
        /\ \A k \in 1..3 :
              lastResult.ret.value[k].gexp = (IF args.unit = PyStr("m2s") THEN 1 ELSE 0)

C9_Witness ==
    /\ args.unit = PyStr("G")
    /\ Len(busLog) = 2 /\ busLog[1].ok
    /\ SampleReturned
    /\ lastBlock = <<0, 1, 0, 0, 255, 255>>
    /\ lastResult.ret.value = <<[mant |-> 9984, gexp |-> 0], [mant |-> 0, gexp |-> 0],
                                [mant |-> -39, gexp |-> 0]>>

OnlyBlockReads ==
    \A i \in DOMAIN busLog :
        busLog[i].op = "read" /\ busLog[i].reg = AXES_DATA /\ busLog[i].val = 6

\* C10 as stated: no sequence of sample reads changes address, rate, range or
\* unit, and a sample read issues only block reads.
C10_ConfigImmutable ==
    /\ self.address = args.address
    /\ self.rate = args.rate
    /\ self.measure_range = args.measure_range
    /\ self.unit = args.unit
    /\ OnlyBlockReads

\* C10 as amended: sample reads never change address, rate or range and issue
\* only block reads of the six axis registers; a unit of 'g' or 'm2s' is never
\* changed, while an unrecognized unit is validated inside the read and is
\* replaced by 'g' by a read that obtained a complete block.
C10_ConfigFrame ==
    /\ self.address = args.address
    /\ self.rate = args.rate
    /\ self.measure_range = args.measure_range
    /\ self.range = PyNone
    /\ OnlyBlockReads
    /\ args.unit \in {PyStr("g"), PyStr("m2s")} => self.unit = args.unit
    /\ self.unit # args.unit =>
          self.unit = PyStr("g") /\ \E i \in DOMAIN busLog : busLog[i].ok
    /\ SampleReturned => self.unit \in {PyStr("g"), PyStr("m2s")}

C10_Witness ==
    /\ args.unit = PyStr("G")
    /\ self.unit = PyStr("g")
    /\ Len(busLog) = 2
    /\ SampleReturned

====
